---- MODULE Spec2Model ----
(***************************************************************************)
(* Condition Monitoring Dashboard (src/app.py).                            *)
(*                                                                         *)
(* One run of main(): the sheet is loaded, its header is checked, the rows *)
(* are cleaned, the date range filters them, the system and area scores    *)
(* are aggregated, and the user drills down: system -> equipment -> point  *)
(* of the trend chart.                                                     *)
(*                                                                         *)
(* Numbers read from the sheet are held in tenths (24 is 2.4) so that the  *)
(* integer conversion of line 88 is visible.  A timestamp is a number of   *)
(* ticks, TicksPerDay ticks to a calendar day.                             *)
(***************************************************************************)
EXTENDS Integers, Sequences, FiniteSets, TLC

VARIABLES pc, file, columns, df, date_range, df_filtered_by_date,
          system_scores, area_scores, system_summary,
          selected_system, detail_df, selected_equip_name,
          aggregated_df, selected_row

vars == <<pc, file, columns, df, date_range, df_filtered_by_date,
          system_scores, area_scores, system_summary,
          selected_system, detail_df, selected_equip_name,
          aggregated_df, selected_row>>

----------------------------------------------------------------------------
(* Bounds of the model *)

MaxRows == 2
MaxDay == 2
TicksPerDay == 2

----------------------------------------------------------------------------
(* Cells of the sheet *)

Num(t) == [kind |-> "num", v |-> t]
Text == [kind |-> "text", v |-> 0]
Blank == [kind |-> "nan", v |-> 0]

DateCell(t) == [ok |-> TRUE, ts |-> t]
BadDate == [ok |-> FALSE, ts |-> 0]

NaN == [nan |-> TRUE, v |-> 0]
NaT == -1

RequiredColumns == {"AREA", "SYSTEM", "EQUIPMENT DESCRIPTION", "DATE",
                    "CONDITION MONITORING SCORE"}

DisplayColumns == {"VIBRATION", "OIL ANALYSIS", "TEMPERATURE", "OTHER INSPECTION"}

AllColumns == RequiredColumns \cup DisplayColumns

----------------------------------------------------------------------------
(* Helper functions *)

map_status(score) ==
    IF score = 1 THEN "Need Action"
    ELSE IF score = 2 THEN "Caution"
    ELSE IF score = 3 THEN "Okay"
    ELSE "UNKNOWN"

Range(s) == {s[i] : i \in DOMAIN s}

MinOf(S) == CHOOSE m \in S : \A x \in S : m <= x

MaxOf(S) == CHOOSE m \in S : \A x \in S : m >= x

RECURSIVE SortedSeq(_)
SortedSeq(S) ==
    IF S = {} THEN <<>>
    ELSE LET m == MinOf(S) IN <<m>> \o SortedSeq(S \ {m})

(* pd.to_numeric(errors="coerce"): a number stays, anything else is NaN *)
to_numeric(cell) ==
    IF cell.kind = "num" THEN [nan |-> FALSE, v |-> cell.v] ELSE NaN

(* pd.to_datetime(errors="coerce"): an unparseable date is NaT *)
to_datetime(cell) == IF cell.ok THEN cell.ts ELSE NaT

(* a conversion that rounds to the nearest integer instead of truncating *)
astype_int_round(v) == IF v >= 0 THEN (v + 5) \div 10 ELSE -((5 - v) \div 10)

(* Series.astype(int) on floats: truncation toward zero (v is in tenths) *)
astype_int(v) == IF v >= 0 THEN v \div 10 ELSE -((-v) \div 10)

(* str.strip().str.upper() on the category cells that occur in the sheet *)
strip_upper(s) ==
    IF s = " a1" THEN "A1" ELSE s

(* Timestamp.date() / Series.dt.date *)
dt_date(ts) == ts \div TicksPerDay

(* Timestamp.normalize(): midnight of the same day *)
normalize(ts) == (ts \div TicksPerDay) * TicksPerDay

----------------------------------------------------------------------------
(* Cleaning, lines 78-93 *)

(* a row scorer that takes the lowest numeric component cell and falls back
   to the CONDITION MONITORING SCORE cell when there is none *)
score_of_row_components(row) ==
    LET comps == {c \in {row.VIBRATION, row.OIL_ANALYSIS, row.TEMPERATURE,
                         row.OTHER_INSPECTION} : c.kind = "num"}
    IN IF comps = {} THEN to_numeric(row.SCORE)
       ELSE [nan |-> FALSE, v |-> MinOf({c.v : c \in comps})]

(* lines 78-79: the row's score is the CONDITION MONITORING SCORE cell *)
score_of_row(row) == to_numeric(row.SCORE)

(* lines 78-85: SCORE and DATE coerced, category cells stripped and upper-cased *)
coerce_row(i, row) ==
    [idx |-> i,
     AREA |-> strip_upper(row.AREA),
     SYSTEM |-> strip_upper(row.SYSTEM),
     EQUIPMENT |-> strip_upper(row.EQUIPMENT),
     DATE |-> to_datetime(row.DATE),
     SCORE |-> score_of_row(row),
     EQUIP_STATUS |-> "",
     VIBRATION |-> row.VIBRATION,
     OIL_ANALYSIS |-> row.OIL_ANALYSIS,
     TEMPERATURE |-> row.TEMPERATURE,
     OTHER_INSPECTION |-> row.OTHER_INSPECTION]

coerce_rows(rows) == [i \in DOMAIN rows |-> coerce_row(i, rows[i])]

(* line 87: an empty category cell ("") is NaN *)
notna(r) ==
    /\ r.AREA # ""
    /\ r.SYSTEM # ""
    /\ r.EQUIPMENT # ""
    /\ r.DATE # NaT
    /\ ~r.SCORE.nan

dropna(rows) == SelectSeq(rows, notna)

(* line 88 *)
astype_rows(rows) ==
    [i \in DOMAIN rows |-> [rows[i] EXCEPT !.SCORE = astype_int(@.v)]]

(* a cleaning that keeps every integer score *)
isin_123_off(rows) == rows

(* line 91 *)
isin_123(rows) == SelectSeq(rows, LAMBDA r : r.SCORE \in {1, 2, 3})

(* line 93 *)
add_status(rows) ==
    [i \in DOMAIN rows |-> [rows[i] EXCEPT !.EQUIP_STATUS = map_status(rows[i].SCORE)]]

clean(rows) == add_status(isin_123(astype_rows(dropna(coerce_rows(rows)))))

----------------------------------------------------------------------------
(* Date filter, lines 97-100 *)

(* a filter that compares the timestamp with midnight of the end date *)
date_filter_ts(rows, dr) ==
    IF Len(dr) = 2
    THEN SelectSeq(rows, LAMBDA r : r.DATE >= dr[1] * TicksPerDay /\ r.DATE <= dr[2] * TicksPerDay)
    ELSE rows

date_filter(rows, dr) ==
    IF Len(dr) = 2
    THEN SelectSeq(rows, LAMBDA r : dt_date(r.DATE) >= dr[1] /\ dt_date(r.DATE) <= dr[2])
    ELSE rows

----------------------------------------------------------------------------
(* Aggregation, lines 106-108 and 153-154 *)

group_system_scores(rows) ==
    {[AREA |-> k[1], SYSTEM |-> k[2],
      SCORE |-> MinOf({r.SCORE : r \in {x \in Range(rows) : x.AREA = k[1] /\ x.SYSTEM = k[2]}})]
        : k \in {<<r.AREA, r.SYSTEM>> : r \in Range(rows)}}

(* an area aggregation that takes the best system score *)
group_area_scores_max(sys) ==
    {[AREA |-> a, SCORE |-> MaxOf({s.SCORE : s \in {x \in sys : x.AREA = a}})]
        : a \in {s.AREA : s \in sys}}

group_area_scores(sys) ==
    {[AREA |-> a, SCORE |-> MinOf({s.SCORE : s \in {x \in sys : x.AREA = a}})]
        : a \in {s.AREA : s \in sys}}

group_system_summary(rows) ==
    {[SYSTEM |-> n,
      SCORE |-> MinOf({r.SCORE : r \in {x \in Range(rows) : x.SYSTEM = n}}),
      STATUS |-> map_status(MinOf({r.SCORE : r \in {x \in Range(rows) : x.SYSTEM = n}}))]
        : n \in {r.SYSTEM : r \in Range(rows)}}

----------------------------------------------------------------------------
(* Drill-down, lines 181-182, 219-224, 239-243 *)

(* line 181 *)
system_rows(rows, system) == SelectSeq(rows, LAMBDA r : r.SYSTEM = system)

(* line 182: the rows that can come first for an equipment after the
   descending sort on DATE; the default sort is not stable, so rows with
   the same DATE may come in either order *)
latest_rows(rows, e) ==
    {r \in Range(rows) :
        /\ r.EQUIPMENT = e
        /\ \A x \in Range(rows) : x.EQUIPMENT = e => x.DATE <= r.DATE}

detail_choices(rows) ==
    LET equips == {r.EQUIPMENT : r \in Range(rows)}
    IN {f \in [equips -> Range(rows)] : \A e \in equips : f[e] \in latest_rows(rows, e)}

(* line 219 *)
equip_rows(rows, name) == SelectSeq(rows, LAMBDA r : r.EQUIPMENT = name)

(* line 222: idxmin of one DATE group, the first row holding the minimum *)
idxmin_row(rows, ts) ==
    LET grp == SelectSeq(rows, LAMBDA r : r.DATE = ts)
        m == MinOf({grp[i].SCORE : i \in DOMAIN grp})
    IN SelectSeq(grp, LAMBDA r : r.SCORE = m)[1]

(* lines 222-224: groupby('DATE') sorts the group keys *)
trend_rows(rows) ==
    LET keys == SortedSeq({r.DATE : r \in Range(rows)})
    IN [i \in DOMAIN keys |-> idxmin_row(rows, keys[i])]

(* lines 240-243 *)
clicked_row(agg, x) ==
    SelectSeq(agg, LAMBDA r : normalize(r.DATE) = normalize(x))[1]

----------------------------------------------------------------------------
(* The sheets the model loads *)

RowOf(a, s, e, d, sc, vib) ==
    [AREA |-> a, SYSTEM |-> s, EQUIPMENT |-> e, DATE |-> d, SCORE |-> sc,
     VIBRATION |-> vib, OIL_ANALYSIS |-> Blank, TEMPERATURE |-> Blank,
     OTHER_INSPECTION |-> Blank]

Days == 1..MaxDay

Timestamps == TicksPerDay..((MaxDay + 1) * TicksPerDay - 1)

EquipIn(a) == IF strip_upper(a) = "A1" THEN "E1" ELSE "E2"

(* areas, systems and scores vary, every reading at midnight of day 1 *)
AggRows ==
    {RowOf(a, s, EquipIn(a), DateCell(TicksPerDay), Num(sc), Blank) :
        a \in {"A1", " a1", "A2"}, s \in {"S1", "S2"}, sc \in {10, 20, 30}}

(* day 1 at every time of day, the later days at midnight *)
TrendTimestamps ==
    {TicksPerDay + t : t \in 0..(TicksPerDay - 1)} \cup {d * TicksPerDay : d \in Days}

(* equipment, time of day and score vary *)
TrendRows ==
    {RowOf("A1", "S1", e, DateCell(t), Num(sc), Blank) :
        e \in {"E1", "E2"}, t \in TrendTimestamps, sc \in {10, 20}}

(* the date cell varies, some dates unreadable *)
DateRows ==
    {RowOf("A1", "S1", "E1", d, Num(20), Blank) :
        d \in {BadDate} \cup {DateCell(t) : t \in Timestamps}}

(* score cells and one component cell vary *)
RawScores == {-50, 0, 20, 24, 26, 46, 49}

ScoreRows ==
    {RowOf("A1", "S1", "E1", DateCell(TicksPerDay), sc, vib) :
        sc \in {Blank, Text} \cup {Num(v) : v \in RawScores},
        vib \in {Blank, Num(10), Num(30)}}

Datasets(U) == UNION {[1..n -> U] : n \in 0..MaxRows}

(* the full header, and the headers that lack one column *)
ColumnSets == {AllColumns} \cup {AllColumns \ {c} : c \in AllColumns}

DateRanges ==
    {<<s>> : s \in Days} \cup {p \in Days \X Days : p[1] <= p[2]}

----------------------------------------------------------------------------
(* Initial states *)

InitWith(U) ==
    /\ pc = "start"
    /\ file \in [columns : ColumnSets, rows : Datasets(U)]
    /\ columns = {}
    /\ df = <<>>
    /\ date_range = <<>>
    /\ df_filtered_by_date = <<>>
    /\ system_scores = {}
    /\ area_scores = {}
    /\ system_summary = {}
    /\ selected_system = ""
    /\ detail_df = {}
    /\ selected_equip_name = ""
    /\ aggregated_df = <<>>
    /\ selected_row = <<>>

Init == InitWith(AggRows)

InitTrend == InitWith(TrendRows)

InitScore == InitWith(ScoreRows)

InitDates == InitWith(DateRows)

----------------------------------------------------------------------------
(* Actions *)

(* lines 67-68, 73: the sheet is read and its header normalised *)
LoadData ==
    /\ pc = "start"
    /\ pc' = "loaded"
    /\ df' = file.rows
    /\ columns' = file.columns
    /\ UNCHANGED <<file, date_range, df_filtered_by_date, system_scores, area_scores,
                   system_summary, selected_system, detail_df, selected_equip_name,
                   aggregated_df, selected_row>>

(* lines 69-71: the download or the parse raised *)
LoadDataError ==
    /\ pc = "start"
    /\ pc' = "error"
    /\ UNCHANGED <<file, columns, df, date_range, df_filtered_by_date, system_scores,
                   area_scores, system_summary, selected_system, detail_df,
                   selected_equip_name, aggregated_df, selected_row>>

(* lines 74-76 *)
ScoreColumnMissing ==
    /\ pc = "loaded"
    /\ "CONDITION MONITORING SCORE" \notin columns
    /\ pc' = "error"
    /\ UNCHANGED <<file, columns, df, date_range, df_filtered_by_date, system_scores,
                   area_scores, system_summary, selected_system, detail_df,
                   selected_equip_name, aggregated_df, selected_row>>

(* lines 80 and 87: df["DATE"] and dropna(subset=...) raise KeyError on a
   column that is not there; nothing catches it *)
CleanKeyError ==
    /\ pc = "loaded"
    /\ "CONDITION MONITORING SCORE" \in columns
    /\ ~(RequiredColumns \subseteq columns)
    /\ pc' = "crashed"
    /\ UNCHANGED <<file, columns, df, date_range, df_filtered_by_date, system_scores,
                   area_scores, system_summary, selected_system, detail_df,
                   selected_equip_name, aggregated_df, selected_row>>

(* lines 78-93 *)
Clean ==
    /\ pc = "loaded"
    /\ RequiredColumns \subseteq columns
    /\ df' = clean(df)
    /\ pc' = "cleaned"
    /\ UNCHANGED <<file, columns, date_range, df_filtered_by_date, system_scores,
                   area_scores, system_summary, selected_system, detail_df,
                   selected_equip_name, aggregated_df, selected_row>>

(* lines 95-96: on an empty frame min() and max() are NaT, NaT.date() is
   NaT, and st.date_input raises on a NaT default *)
DateInputNaT ==
    /\ pc = "cleaned"
    /\ df = <<>>
    /\ pc' = "crashed"
    /\ UNCHANGED <<file, columns, df, date_range, df_filtered_by_date, system_scores,
                   area_scores, system_summary, selected_system, detail_df,
                   selected_equip_name, aggregated_df, selected_row>>

(* lines 96-104: the chosen range leaves no row *)
DateFilterNoData(dr) ==
    /\ pc = "cleaned"
    /\ df # <<>>
    /\ date_filter(df, dr) = <<>>
    /\ date_range' = dr
    /\ df_filtered_by_date' = <<>>
    /\ pc' = "no_data"
    /\ UNCHANGED <<file, columns, df, system_scores, area_scores, system_summary,
                   selected_system, detail_df, selected_equip_name, aggregated_df,
                   selected_row>>

(* lines 96-172: the rows are filtered and aggregated, the explorer grid shown *)
Aggregate(dr) ==
    /\ pc = "cleaned"
    /\ df # <<>>
    /\ date_filter(df, dr) # <<>>
    /\ date_range' = dr
    /\ df_filtered_by_date' = date_filter(df, dr)
    /\ system_scores' = group_system_scores(date_filter(df, dr))
    /\ area_scores' = group_area_scores(group_system_scores(date_filter(df, dr)))
    /\ system_summary' = group_system_summary(date_filter(df, dr))
    /\ pc' = "explorer"
    /\ UNCHANGED <<file, columns, df, selected_system, detail_df, selected_equip_name,
                   aggregated_df, selected_row>>

(* lines 178-186: detail_df[detail_display_cols] raises KeyError when a
   display column is not in the sheet *)
SelectSystemKeyError(s) ==
    /\ pc = "explorer"
    /\ s \in {x.SYSTEM : x \in system_summary}
    /\ ~(DisplayColumns \subseteq columns)
    /\ selected_system' = s
    /\ pc' = "crashed"
    /\ UNCHANGED <<file, columns, df, date_range, df_filtered_by_date, system_scores,
                   area_scores, system_summary, detail_df, selected_equip_name,
                   aggregated_df, selected_row>>

(* lines 178-196 *)
SelectSystem(s) ==
    /\ pc = "explorer"
    /\ s \in {x.SYSTEM : x \in system_summary}
    /\ DisplayColumns \subseteq columns
    /\ selected_system' = s
    /\ \E f \in detail_choices(system_rows(df_filtered_by_date, s)) :
          detail_df' = {f[e] : e \in DOMAIN f}
    /\ pc' = "details"
    /\ UNCHANGED <<file, columns, df, date_range, df_filtered_by_date, system_scores,
                   area_scores, system_summary, selected_equip_name, aggregated_df,
                   selected_row>>

(* lines 202-236 *)
SelectEquipment(e) ==
    /\ pc = "details"
    /\ e \in {r.EQUIPMENT : r \in detail_df}
    /\ selected_equip_name' = e
    /\ aggregated_df' =
          IF equip_rows(df_filtered_by_date, e) # <<>>
          THEN trend_rows(equip_rows(df_filtered_by_date, e))
          ELSE <<>>
    /\ pc' = "trend"
    /\ UNCHANGED <<file, columns, df, date_range, df_filtered_by_date, system_scores,
                   area_scores, system_summary, selected_system, detail_df, selected_row>>

(* lines 238-250: the x of the clicked point is the DATE of a trend row *)
ClickPoint(i) ==
    /\ pc = "trend"
    /\ i \in DOMAIN aggregated_df
    /\ selected_row' = <<clicked_row(aggregated_df, aggregated_df[i].DATE)>>
    /\ pc' = "drilldown"
    /\ UNCHANGED <<file, columns, df, date_range, df_filtered_by_date, system_scores,
                   area_scores, system_summary, selected_system, detail_df,
                   selected_equip_name, aggregated_df>>

Next ==
    \/ LoadData
    \/ LoadDataError
    \/ ScoreColumnMissing
    \/ CleanKeyError
    \/ Clean
    \/ DateInputNaT
    \/ \E dr \in DateRanges : DateFilterNoData(dr)
    \/ \E dr \in DateRanges : Aggregate(dr)
    \/ \E s \in {x.SYSTEM : x \in system_summary} : SelectSystemKeyError(s)
    \/ \E s \in {x.SYSTEM : x \in system_summary} : SelectSystem(s)
    \/ \E e \in {r.EQUIPMENT : r \in detail_df} : SelectEquipment(e)
    \/ \E i \in DOMAIN aggregated_df : ClickPoint(i)

Spec == Init /\ [][Next]_vars

SpecTrend == InitTrend /\ [][Next]_vars

SpecScore == InitScore /\ [][Next]_vars

SpecDates == InitDates /\ [][Next]_vars

----------------------------------------------------------------------------
(* Properties *)

Cleaned == pc \in {"cleaned", "no_data", "explorer", "details", "trend", "drilldown"}

Aggregated == pc \in {"explorer", "details", "trend", "drilldown"}

Filtered == pc \in {"no_data", "explorer", "details", "trend", "drilldown"}

FilteredRows == Range(df_filtered_by_date)

(* C1: the system score of every (area, system) pair of the filtered rows is
   the lowest score of the rows of that pair, the area score of every area
   is the lowest of its system scores, so no area score exceeds one of its
   system scores and no system score exceeds the score of one of its rows *)
C1_WorstWins ==
    Aggregated =>
        /\ \A r \in FilteredRows :
              \E s \in system_scores : s.AREA = r.AREA /\ s.SYSTEM = r.SYSTEM
        /\ \A s \in system_scores :
              /\ \E r \in FilteredRows :
                    r.AREA = s.AREA /\ r.SYSTEM = s.SYSTEM /\ r.SCORE = s.SCORE
              /\ \A r \in FilteredRows :
                    (r.AREA = s.AREA /\ r.SYSTEM = s.SYSTEM) => s.SCORE <= r.SCORE
              /\ \A t \in system_scores :
                    (t.AREA = s.AREA /\ t.SYSTEM = s.SYSTEM) => t = s
        /\ \A s \in system_scores : \E a \in area_scores : a.AREA = s.AREA
        /\ \A a \in area_scores :
              /\ \E s \in system_scores : s.AREA = a.AREA /\ s.SCORE = a.SCORE
              /\ \A s \in system_scores : s.AREA = a.AREA => a.SCORE <= s.SCORE
              /\ \A b \in area_scores : b.AREA = a.AREA => b = a
              /\ \A r \in FilteredRows : r.AREA = a.AREA => a.SCORE <= r.SCORE

(* an area with a score-1 system and a score-3 system has been aggregated *)
C1_Witness ==
    /\ pc = "explorer"
    /\ \E s, t \in system_scores :
          s.AREA = t.AREA /\ s.SCORE = 1 /\ t.SCORE = 3
    /\ \E a \in area_scores : a.SCORE = 1

(* C2: a system name that occurs under two areas stays two groups in every
   system-level output: each (area, system) group finds its own lowest
   score in the System Status Explorer summary, and the equipment detail
   table of a selected system holds rows of one area only *)
C2_NoMerge ==
    /\ Aggregated =>
          \A g \in system_scores :
              \E x \in system_summary : x.SYSTEM = g.SYSTEM /\ x.SCORE = g.SCORE
    /\ pc \in {"details", "trend", "drilldown"} =>
          \A r, q \in detail_df : r.AREA = q.AREA

(* C3: the row shown for a clicked point is a row of the selected equipment
   dated on the clicked calendar day whose score is the lowest among all
   filtered rows of that equipment on that calendar day *)
C3_WorstOfDay ==
    pc = "drilldown" =>
        LET row == selected_row[1]
            sameDay == {r \in FilteredRows :
                           /\ r.EQUIPMENT = selected_equip_name
                           /\ r.DATE \div TicksPerDay = row.DATE \div TicksPerDay}
        IN /\ row \in sameDay
           /\ \A r \in sameDay : row.SCORE <= r.SCORE

(* C4: the trend series of the selected equipment has one point per distinct
   calendar date of its filtered rows, carrying the lowest score of the
   rows of that calendar date *)
C4_OnePointPerDay ==
    pc \in {"trend", "drilldown"} =>
        LET rows == {r \in FilteredRows : r.EQUIPMENT = selected_equip_name}
        IN /\ Len(aggregated_df) = Cardinality({r.DATE \div TicksPerDay : r \in rows})
           /\ \A i \in DOMAIN aggregated_df :
                 \A r \in rows :
                    (r.DATE \div TicksPerDay = aggregated_df[i].DATE \div TicksPerDay)
                        => aggregated_df[i].SCORE <= r.SCORE

RawRows == file.rows

NumericRows == {i \in DOMAIN RawRows : RawRows[i].SCORE.kind = "num"}

KeptIdx == {r.idx : r \in Range(df)}

RoundNearest(v) == IF v >= 0 THEN (v + 5) \div 10 ELSE -((5 - v) \div 10)

Clamp13(n) == IF n < 1 THEN 1 ELSE IF n > 3 THEN 3 ELSE n

(* C5 as stated: a numeric raw score is rounded to the nearest integer and
   clamped into [1,3], and its row is kept with that score *)
C5_RoundAndClamp ==
    Cleaned =>
        \A i \in NumericRows :
            \E r \in Range(df) :
                r.idx = i /\ r.SCORE = Clamp13(RoundNearest(RawRows[i].SCORE.v))

(* C5 amended: a numeric raw score is cut to its integer part; its row is
   kept, with that integer as score, exactly when the integer part is 1, 2
   or 3 (raw value from 1.0 up to, not including, 4.0), and dropped
   otherwise *)
C5_TruncateAndDrop ==
    Cleaned =>
        \A i \in NumericRows :
            LET v == RawRows[i].SCORE.v
            IN IF 10 <= v /\ v < 40
               THEN \E r \in Range(df) :
                       /\ r.idx = i
                       /\ 10 * r.SCORE <= v
                       /\ v < 10 * r.SCORE + 10
               ELSE i \notin KeptIdx

(* a sheet with 4.6 and 2.6 has been cleaned: 4.6 is gone, 2.6 is kept as 2 *)
C5_Witness ==
    /\ pc = "cleaned"
    /\ \E i, j \in NumericRows :
          /\ RawRows[i].SCORE.v = 46
          /\ RawRows[j].SCORE.v = 26
          /\ i \notin KeptIdx
          /\ \E r \in Range(df) : r.idx = j /\ r.SCORE = 2

ComponentCells(row) ==
    {c \in {row.VIBRATION, row.OIL_ANALYSIS, row.TEMPERATURE, row.OTHER_INSPECTION} :
        c.kind = "num"}

(* C6 as stated: a row with a non-missing component cell is scored with the
   lowest coerced component value; only a row without one takes the
   CONDITION MONITORING SCORE cell *)
C6_ComponentMinimum ==
    Cleaned =>
        \A r \in Range(df) :
            LET comps == ComponentCells(RawRows[r.idx])
            IN comps # {} =>
                 /\ \E c \in comps : r.SCORE = Clamp13(RoundNearest(c.v))
                 /\ \A c \in comps : r.SCORE <= Clamp13(RoundNearest(c.v))

(* C6 amended: the score of every kept row is the integer part of its
   CONDITION MONITORING SCORE cell whatever its component cells hold, the
   component cells pass through unchanged, and a row whose CONDITION
   MONITORING SCORE cell is not a number is dropped even when it has
   component values *)
C6_OverallScoreOnly ==
    Cleaned =>
        /\ \A r \in Range(df) :
              LET raw == RawRows[r.idx]
              IN /\ raw.SCORE.kind = "num"
                 /\ 10 * r.SCORE <= raw.SCORE.v
                 /\ raw.SCORE.v < 10 * r.SCORE + 10
                 /\ r.VIBRATION = raw.VIBRATION
                 /\ r.OIL_ANALYSIS = raw.OIL_ANALYSIS
                 /\ r.TEMPERATURE = raw.TEMPERATURE
                 /\ r.OTHER_INSPECTION = raw.OTHER_INSPECTION
        /\ \A i \in DOMAIN RawRows :
              RawRows[i].SCORE.kind # "num" => i \notin KeptIdx

(* a row with VIBRATION 1 and overall score 2 is kept with score 2, and a
   row with VIBRATION 1 and no overall score is dropped *)
C6_Witness ==
    /\ pc = "cleaned"
    /\ \E r \in Range(df) :
          /\ RawRows[r.idx].VIBRATION = Num(10)
          /\ RawRows[r.idx].SCORE = Num(20)
          /\ r.SCORE = 2
    /\ \E i \in DOMAIN RawRows :
          /\ RawRows[i].VIBRATION = Num(10)
          /\ RawRows[i].SCORE = Blank
          /\ i \notin KeptIdx

(* C7: after cleaning every score of a kept row, of a system, area or
   explorer aggregate, of a trend point and of the drill-down row is 1, 2
   or 3, and every row that feeds them had a numeric raw score whose
   integer part is 1, 2 or 3 *)
C7_ScoresIn123 ==
    Cleaned =>
        /\ \A r \in Range(df) :
              /\ r.SCORE \in {1, 2, 3}
              /\ RawRows[r.idx].SCORE.kind = "num"
              /\ RawRows[r.idx].SCORE.v >= 10
              /\ RawRows[r.idx].SCORE.v < 40
        /\ \A r \in FilteredRows : r \in Range(df)
        /\ \A s \in system_scores : s.SCORE \in {1, 2, 3}
        /\ \A a \in area_scores : a.SCORE \in {1, 2, 3}
        /\ \A x \in system_summary : x.SCORE \in {1, 2, 3}
        /\ \A r \in detail_df : r.SCORE \in {1, 2, 3}
        /\ \A i \in DOMAIN aggregated_df : aggregated_df[i].SCORE \in {1, 2, 3}
        /\ \A i \in DOMAIN selected_row : selected_row[i].SCORE \in {1, 2, 3}

(* a sheet holding a 4.6 and a valid score has been aggregated and its trend drawn *)
C7_Witness ==
    /\ pc = "trend"
    /\ \E i \in NumericRows : RawRows[i].SCORE.v = 46
    /\ Len(aggregated_df) = 1
    /\ system_scores # {}
    /\ area_scores # {}

(* C8: with a required column missing the run stops in the reported error
   state before cleaning; it never ends in an unhandled exception *)
C8_MissingColumnReported ==
    (pc # "start" /\ ~(RequiredColumns \subseteq columns)) => pc \in {"loaded", "error"}

(* C9: a two-date range keeps exactly the cleaned rows whose calendar date
   lies between start and end, both included, whatever the time of day;
   no row with an unreadable date is in the filtered rows *)
C9_InclusiveDateRange ==
    Filtered =>
        /\ Len(date_range) = 2 =>
              {r.idx : r \in FilteredRows} =
                 {i \in KeptIdx :
                     /\ RawRows[i].DATE.ts >= date_range[1] * TicksPerDay
                     /\ RawRows[i].DATE.ts < (date_range[2] + 1) * TicksPerDay}
        /\ \A r \in FilteredRows : RawRows[r.idx].DATE.ok /\ r.DATE = RawRows[r.idx].DATE.ts

(* a row dated on the end date after midnight is kept, a row of a later day
   is left out *)
C9_Witness ==
    /\ pc = "explorer"
    /\ Len(date_range) = 2
    /\ \E r \in FilteredRows :
          r.DATE \div TicksPerDay = date_range[2] /\ r.DATE % TicksPerDay > 0
    /\ \E r \in Range(df) : r.DATE \div TicksPerDay > date_range[2]

(* C10: a run whose rows are all gone, after cleaning or after the date
   filter, ends in the no-data state with empty aggregates, never in an
   unhandled exception *)
C10_EmptyIsNoData ==
    /\ (Filtered /\ df_filtered_by_date = <<>>) =>
          pc = "no_data" /\ system_scores = {} /\ area_scores = {} /\ system_summary = {}
    /\ (RequiredColumns \subseteq columns /\ df = <<>>) => pc # "crashed"

====
